---- MODULE Spec2Model ----
(***************************************************************************)
(* partitura-mcp: ABC notation -> SVG (abcjs) -> primitives -> PDF         *)
(* (pdfkit).  The model follows src/src/index.js: AbcToPdfSchema,          *)
(* validateAbcNotation, abcToSvg, extractSvgElements, abcToPdf and the     *)
(* stdio server's tools/call handler.                                      *)
(*                                                                         *)
(* JavaScript runs one callback to completion before the next one starts.  *)
(* abcToPdf is an async function with a single suspension point, the       *)
(* `await pdfPromise` of line 270: everything before it is one step of the *)
(* model (Invoke), everything after it is another (Resume), and the page   *)
(* engine's stream events (DataEvent, EndEvent, ErrorEvent) happen in      *)
(* between.                                                                *)
(*                                                                         *)
(* Strings the code inspects character by character (the notation, numeric *)
(* attributes) are sequences of one-character strings; strings the code    *)
(* only tests for emptiness and passes on are TLA+ strings.  Lengths on    *)
(* the page are in hundredths of a point, so that pdfkit's A4 page         *)
(* (595.28 x 841.89 pt) is integral; ratios are exact fractions, the       *)
(* rounding of IEEE doubles is not modelled.                               *)
(***************************************************************************)
EXTENDS Integers, Sequences, FiniteSets, TLC

VARIABLES
    inv,             \* inv[p]: the state of the p-th abcToPdf invocation
    globalDocument,  \* global.document: 0 when deleted, else the invocation whose JSDOM it is
    globalWindow,    \* global.window, likewise
    rendered,        \* what abcjs.renderAbc has produced so far, per notation
    parsed,          \* the result of the last direct call of extractSvgElements
    validated,       \* the result of the last direct call of validateAbcNotation
    checked,         \* the result of the last direct call of AbcToPdfSchema.parse
    tool,            \* the tools/call request of the stdio server and what became of it
    transports,      \* the HTTP server's session table, and how many session ids it has issued
    http             \* the last request to /mcp and its response

vars ==
    <<inv, globalDocument, globalWindow, rendered, parsed, validated, checked, tool,
      transports, http>>

\* the state of the HTTP server
httpState == <<transports, http>>

\* the results of direct calls of the exported functions
directCalls == <<parsed, validated, checked>>

(***************************************************************************)
(* Bounds of the model.                                                    *)
(***************************************************************************)
NumInvocations == 2     \* overlapping abcToPdf invocations
DocChunks == 2          \* chunks the page engine streams for one document

Invocations == 1..NumInvocations

(***************************************************************************)
(* Characters.                                                             *)
(***************************************************************************)
Upper == <<"A","B","C","D","E","F","G","H","I","J","K","L","M",
           "N","O","P","Q","R","S","T","U","V","W","X","Y","Z">>
Lower == <<"a","b","c","d","e","f","g","h","i","j","k","l","m",
           "n","o","p","q","r","s","t","u","v","w","x","y","z">>
Digits == <<"0","1","2","3","4","5","6","7","8","9">>

Range(s) == {s[i] : i \in DOMAIN s}

\* String.prototype.toLowerCase on one character (the /i flag of the patterns)
ToLower(c) ==
    IF c \in Range(Upper)
    THEN Lower[CHOOSE i \in DOMAIN Upper : Upper[i] = c]
    ELSE c

\* \w of a JavaScript regular expression
IsWordChar(c) == c \in Range(Upper) \cup Range(Lower) \cup Range(Digits) \cup {"_"}

\* white space as String.prototype.trim and parseFloat see it
IsSpace(c) == c \in {" ", "\n", "\t"}

IsDigit(c) == c \in Range(Digits)

DigitValue(c) == (CHOOSE i \in DOMAIN Digits : Digits[i] = c) - 1

(***************************************************************************)
(* JavaScript values the code tests for truthiness.                        *)
(***************************************************************************)
\* a notation argument: undefined, null, a number, a string (a sequence of
\* characters), or an array holding one string
UndefinedValue == [type |-> "undefined", n |-> 0, s |-> <<>>]
NullValue == [type |-> "null", n |-> 0, s |-> <<>>]
NumberValue(n) == [type |-> "number", n |-> n, s |-> <<>>]
StringValue(s) == [type |-> "string", n |-> 0, s |-> s]
ArrayValue(s) == [type |-> "array", n |-> 0, s |-> s]

\* !x is false: undefined, null, 0 and "" are falsy, an array is not
Truthy(x) ==
    CASE x.type \in {"undefined", "null"} -> FALSE
      [] x.type = "number" -> x.n # 0
      [] x.type = "array" -> TRUE
      [] OTHER -> x.s # <<>>

\* a JavaScript number: an exact fraction n/d (d > 0, lowest terms), or NaN
NaN == [nan |-> TRUE, n |-> 0, d |-> 1]
Num(v) == [nan |-> FALSE, n |-> v, d |-> 1]

\* a number in a condition (x || y, x ? a : b): 0 and NaN are falsy
TruthyNumber(x) == ~x.nan /\ x.n # 0

(***************************************************************************)
(* validateAbcNotation, index.js 20-48.                                    *)
(***************************************************************************)
MsgNonEmptyString == "ABC notation must be a non-empty string"
MsgCannotBeEmpty == "ABC notation cannot be empty"
MsgUnsafe == "ABC notation contains potentially unsafe content"

RECURSIVE TrimStart(_)
TrimStart(s) ==
    IF s # <<>> /\ IsSpace(Head(s)) THEN TrimStart(Tail(s)) ELSE s

RECURSIVE TrimEnd(_)
TrimEnd(s) ==
    IF s # <<>> /\ IsSpace(s[Len(s)]) THEN TrimEnd(SubSeq(s, 1, Len(s) - 1)) ELSE s

\* String.prototype.trim
Trim(s) == TrimEnd(TrimStart(s))

\* a match that does not ignore case
MatchAtExact(s, i, pat) ==
    /\ i + Len(pat) - 1 <= Len(s)
    /\ \A k \in 1..Len(pat) : s[i + k - 1] = pat[k]

\* the literal pattern pat (lower case) matches s at position i, ignoring case
MatchAt(s, i, pat) ==
    /\ i + Len(pat) - 1 <= Len(s)
    /\ \A k \in 1..Len(pat) : ToLower(s[i + k - 1]) = pat[k]

\* /pat/i.test(s) for a literal pattern
TestLiteral(s, pat) == \E i \in 1..Len(s) : MatchAt(s, i, pat)

\* /on\w+=/i.test(s): "on", one or more word characters, "="
TestOnHandler(s) ==
    \E i \in 1..Len(s) : \E j \in (i + 2)..(Len(s) - 1) :
        /\ MatchAt(s, i, <<"o", "n">>)
        /\ \A k \in (i + 2)..j : IsWordChar(s[k])
        /\ s[j + 1] = "="

\* the literal patterns of dangerousPatterns, lines 33-38 (line 35 is TestOnHandler)
LiteralPatterns ==
    { <<"<", "s", "c", "r", "i", "p", "t">>,
      <<"j", "a", "v", "a", "s", "c", "r", "i", "p", "t", ":">>,
      <<"<", "i", "f", "r", "a", "m", "e">>,
      <<"<", "o", "b", "j", "e", "c", "t">>,
      <<"<", "e", "m", "b", "e", "d">> }

MatchesDangerousPattern(s) ==
    \/ \E pat \in LiteralPatterns : TestLiteral(s, pat)
    \/ TestOnHandler(s)

\* the validator's outcome: ok (returns true), or the message of the Error it throws
Accepted == [ok |-> TRUE, message |-> ""]
Thrown(m) == [ok |-> FALSE, message |-> m]

\* a validator that lets everything through
validateNothing(abcNotation) == Accepted

\* a validator that looks for the dangerous patterns before anything else
validateUnsafeFirst(abcNotation) ==
    IF MatchesDangerousPattern(abcNotation.s)
    THEN Thrown(MsgUnsafe)
    ELSE IF ~Truthy(abcNotation) \/ abcNotation.type # "string"
    THEN Thrown(MsgNonEmptyString)
    ELSE IF Len(Trim(abcNotation.s)) = 0
    THEN Thrown(MsgCannotBeEmpty)
    ELSE Accepted

validateAbcNotation(abcNotation) ==
    IF ~Truthy(abcNotation) \/ abcNotation.type # "string"
    THEN Thrown(MsgNonEmptyString)
    ELSE IF Len(Trim(abcNotation.s)) = 0
    THEN Thrown(MsgCannotBeEmpty)
    ELSE IF MatchesDangerousPattern(abcNotation.s)
    THEN Thrown(MsgUnsafe)
    ELSE Accepted

(***************************************************************************)
(* AbcToPdfSchema, index.js 9-13: a zod object of abc_notation             *)
(* (z.string().min(1, ...)), title and composer (z.string().optional()).   *)
(* The arguments are an object of these three fields, each a value or      *)
(* undefined, or no object at all.  title and composer are only tested for *)
(* their type and passed on: their text is a TLA+ string.                  *)
(***************************************************************************)
MsgSchemaEmpty == "ABC notation cannot be empty"
MsgRequired == "Required"
MsgExpectedString == "Expected string"

TextValue(type, value) == [type |-> type, value |-> value]
NoText == TextValue("undefined", "")

NoArguments ==
    [object |-> FALSE, abc_notation |-> UndefinedValue, title |-> NoText, composer |-> NoText]
Arguments(abcNotation, title, composer) ==
    [object |-> TRUE, abc_notation |-> abcNotation, title |-> title, composer |-> composer]

ZodIssue(path, message) == [path |-> path, message |-> message]

\* z.string() on a value of the given type
StringIssues(path, type) ==
    IF type = "string" THEN << >>
    ELSE IF type = "undefined" THEN <<ZodIssue(path, MsgRequired)>>
    ELSE <<ZodIssue(path, MsgExpectedString)>>

\* a notation schema without its minimum length
NotationIssuesAnyLength(value) == StringIssues("abc_notation", value.type)

\* z.string().min(1, 'ABC notation cannot be empty')
NotationIssues(value) ==
    IF value.type = "string" /\ Len(value.s) < 1
    THEN <<ZodIssue("abc_notation", MsgSchemaEmpty)>>
    ELSE StringIssues("abc_notation", value.type)

\* z.string().optional()
OptionalIssues(path, value) ==
    IF value.type = "undefined" THEN << >> ELSE StringIssues(path, value.type)

\* AbcToPdfSchema.parse(args): the parsed object, or the issues of the ZodError thrown
AbcToPdfSchema(args) ==
    LET issues == IF ~args.object THEN <<ZodIssue("", MsgRequired)>>
                  ELSE NotationIssues(args.abc_notation)
                         \o OptionalIssues("title", args.title)
                         \o OptionalIssues("composer", args.composer)
    IN  IF issues = << >>
        THEN [ok |-> TRUE, issues |-> issues,
              data |-> [abc_notation |-> args.abc_notation, title |-> args.title,
                        composer |-> args.composer]]
        ELSE [ok |-> FALSE, issues |-> issues,
              data |-> [abc_notation |-> UndefinedValue, title |-> NoText,
                        composer |-> NoText]]

(***************************************************************************)
(* parseFloat on the characters of a numeric attribute: leading white      *)
(* space, an optional sign, then the longest run of digits; NaN when no    *)
(* digit follows.  (Attribute values here hold no fraction or exponent.)   *)
(***************************************************************************)
RECURSIVE DigitRun(_)
DigitRun(s) ==
    IF s # <<>> /\ IsDigit(Head(s)) THEN <<Head(s)>> \o DigitRun(Tail(s)) ELSE <<>>

RECURSIVE DecimalValue(_)
DecimalValue(ds) ==
    IF ds = <<>> THEN 0
    ELSE 10 * DecimalValue(SubSeq(ds, 1, Len(ds) - 1)) + DigitValue(ds[Len(ds)])

parseFloat(s) ==
    LET t == TrimStart(s)
        signed == t # <<>> /\ Head(t) \in {"-", "+"}
        body == IF signed THEN Tail(t) ELSE t
        ds == DigitRun(body)
    IN  IF ds = <<>> THEN NaN
        ELSE IF signed /\ Head(t) = "-" THEN Num(0 - DecimalValue(ds))
        ELSE Num(DecimalValue(ds))

(***************************************************************************)
(* The DOM that JSDOM builds from an SVG string.  An element has a tag,    *)
(* its attributes (a record of those that are present), its textContent    *)
(* and its child elements.  A document has the attributes of its first     *)
(* svg element, or none (root = FALSE), and the elements below it.         *)
(***************************************************************************)
Element(tag, a, text, kids) == [tag |-> tag, a |-> a, text |-> text, kids |-> kids]

\* an attribute the code only tests and passes on (a TLA+ string), null when absent
getAttribute(e, name) ==
    IF name \in DOMAIN e.a
    THEN [null |-> FALSE, value |-> e.a[name]]
    ELSE [null |-> TRUE, value |-> ""]

\* an attribute the code hands to parseFloat (a sequence of characters)
getNumericAttribute(e, name) ==
    IF name \in DOMAIN e.a
    THEN [null |-> FALSE, value |-> e.a[name]]
    ELSE [null |-> TRUE, value |-> <<>>]

\* truthiness of what getAttribute returns: null and "" are falsy
TruthyAttribute(x) == ~x.null /\ x.value # ""
TruthyNumericAttribute(x) == ~x.null /\ x.value # <<>>

\* document order: the depth-first, pre-order traversal querySelectorAll follows
RECURSIVE DocumentOrder(_)
DocumentOrder(nodes) ==
    IF nodes = <<>> THEN <<>>
    ELSE <<Head(nodes)>> \o DocumentOrder(Head(nodes).kids) \o DocumentOrder(Tail(nodes))

querySelectorAll(doc, tag) ==
    SelectSeq(DocumentOrder(doc.kids), LAMBDA e : e.tag = tag)

(***************************************************************************)
(* extractSvgElements, index.js 88-152.                                    *)
(***************************************************************************)
MsgInvalidSvg == "Invalid SVG content"
DefaultWidth == 600
DefaultHeight == 800
DefaultStroke == "#000000"
DefaultFill == "none"
DefaultFontFamily == "Arial"

\* width ? parseFloat(width) : 600, lines 107-108
DimensionOrDefault(attr, default) ==
    IF TruthyNumericAttribute(attr) THEN parseFloat(attr.value) ELSE Num(default)

\* lines 104-109
MetadataOf(svgElement) ==
    [type |-> "metadata",
     viewBox |-> getAttribute(svgElement, "viewBox"),
     width |-> DimensionOrDefault(getNumericAttribute(svgElement, "width"), DefaultWidth),
     height |-> DimensionOrDefault(getNumericAttribute(svgElement, "height"), DefaultHeight)]

\* attr || fallback on a string attribute
OrString(attr, fallback) == IF TruthyAttribute(attr) THEN attr.value ELSE fallback

\* parseFloat(attr || fallback): the fallback is itself parsed (lines 116/124, 136/145)
ParseOr(attr, fallback) ==
    IF TruthyNumericAttribute(attr) THEN parseFloat(attr.value) ELSE parseFloat(fallback)

\* lines 114-126: the primitive pushed for a path element that has a d
PathPrimitive(path) ==
    [type |-> "path",
     d |-> getAttribute(path, "d").value,
     stroke |-> OrString(getAttribute(path, "stroke"), DefaultStroke),
     strokeWidth |-> ParseOr(getNumericAttribute(path, "stroke-width"), <<"1">>),
     fill |-> OrString(getAttribute(path, "fill"), DefaultFill)]

\* lines 133-147: the primitive pushed for a text element that has content
TextPrimitive(text) ==
    [type |-> "text",
     content |-> text.text,
     x |-> ParseOr(getNumericAttribute(text, "x"), <<"0">>),
     y |-> ParseOr(getNumericAttribute(text, "y"), <<"0">>),
     fontSize |-> ParseOr(getNumericAttribute(text, "font-size"), <<"1", "2">>),
     fontFamily |-> OrString(getAttribute(text, "font-family"), DefaultFontFamily)]

\* a path is kept whether or not it has drawing commands
HasPathDataAlways(path) == TRUE

\* lines 112-128: if (d) elements.push(...)
HasPathData(path) == TruthyAttribute(getAttribute(path, "d"))

\* lines 131-149: if (content) elements.push(...)
HasContent(text) == text.text # ""

ExtractPaths(doc) ==
    LET kept == SelectSeq(querySelectorAll(doc, "path"), HasPathData)
    IN  [i \in 1..Len(kept) |-> PathPrimitive(kept[i])]

ExtractTexts(doc) ==
    LET kept == SelectSeq(querySelectorAll(doc, "text"), HasContent)
    IN  [i \in 1..Len(kept) |-> TextPrimitive(kept[i])]

\* the elements array as it is filled: metadata, then the paths, then the texts
CollectElements(doc) ==
    <<MetadataOf(doc)>> \o ExtractPaths(doc) \o ExtractTexts(doc)

\* a parser that answers a document without root with the default metadata alone
extractSvgElementsLenient(doc) ==
    IF ~doc.root
    THEN [ok |-> TRUE, message |-> "",
          elements |-> <<[type |-> "metadata", viewBox |-> [null |-> TRUE, value |-> ""],
                          width |-> Num(DefaultWidth), height |-> Num(DefaultHeight)]>>]
    ELSE [ok |-> TRUE, message |-> "", elements |-> CollectElements(doc)]

\* the function's outcome: the elements it returns, or the Error it throws
extractSvgElements(doc) ==
    IF ~doc.root
    THEN [ok |-> FALSE, message |-> MsgInvalidSvg, elements |-> <<>>]
    ELSE [ok |-> TRUE, message |-> "", elements |-> CollectElements(doc)]

(***************************************************************************)
(* abcToSvg, index.js 55-81.  abcjs.renderAbc is an external library: what *)
(* it does for a notation is one of                                        *)
(*   "throws"   it throws,                                                 *)
(*   "empty"    it returns no tune (visualObj is empty),                   *)
(*   "rendered" it fills the container, whose DOM is `container`.          *)
(***************************************************************************)
MsgAbcjs == "abcjs error"
MsgNoDocument == "document is not defined"
MsgRenderFailed == "Failed to render ABC notation"
MsgNoSvg == "No SVG element generated from ABC notation"
PrefixSvg == "Failed to convert ABC to SVG: "
PrefixPdf == "Failed to generate PDF: "

\* an Error message is the concatenation of the strings of a sequence
AbcjsThrows == [kind |-> "throws", container |-> [root |-> FALSE, a |-> <<>>, kids |-> <<>>]]
AbcjsEmpty == [kind |-> "empty", container |-> [root |-> FALSE, a |-> <<>>, kids |-> <<>>]]
AbcjsRendered(container) == [kind |-> "rendered", container |-> container]

\* the body of the try block, lines 57-77: the message of what it throws, or <<>>
RenderFailure(ambient, abcjs) ==
    CASE ambient = 0 -> <<MsgNoDocument>>
      [] abcjs.kind = "throws" -> <<MsgAbcjs>>
      [] abcjs.kind = "empty" -> <<MsgRenderFailed>>
      [] ~abcjs.container.root -> <<MsgNoSvg>>
      [] OTHER -> <<>>

\* ambient is global.document as the function finds it; svg is svgElement.outerHTML,
\* given as the document JSDOM builds from that string
abcToSvg(ambient, abcjs) ==
    LET failure == RenderFailure(ambient, abcjs)
    IN  IF failure # <<>>
        THEN [ok |-> FALSE, message |-> <<PrefixSvg>> \o failure, svg |-> abcjs.container]
        ELSE [ok |-> TRUE, message |-> <<>>, svg |-> abcjs.container]

(***************************************************************************)
(* Arithmetic on numbers that are not NaN.                                 *)
(***************************************************************************)
Abs(x) == IF x < 0 THEN 0 - x ELSE x

RECURSIVE Gcd(_, _)
Gcd(a, b) == IF b = 0 THEN a ELSE Gcd(b, a % b)

Frac(n, d) ==
    LET g == Gcd(Abs(n), Abs(d))
        s == IF d < 0 THEN 0 - 1 ELSE 1
    IN  [nan |-> FALSE, n |-> s * (n \div g), d |-> s * (d \div g)]

FracLess(a, b) == a.n * b.d < b.n * a.d
FracLeq(a, b) == a.n * b.d <= b.n * a.d
FracMin(a, b) == IF FracLess(b, a) THEN b ELSE a
One == Frac(1, 1)

\* f * k for an integer k, cancelling before multiplying
FracTimes(f, k) ==
    LET g == Gcd(Abs(k), f.d)
    IN  Frac(f.n * (k \div g), f.d \div g)

FracMinus(a, b) ==
    LET g == Gcd(a.d, b.d)
    IN  Frac(a.n * (b.d \div g) - b.n * (a.d \div g), (a.d \div g) * b.d)

FracPlus(a, b) == FracMinus(a, Frac(0 - b.n, b.d))

FracHalf(a) == IF a.n % 2 = 0 THEN Frac(a.n \div 2, a.d) ELSE Frac(a.n, 2 * a.d)

(***************************************************************************)
(* The page engine (pdfkit's PDFDocument) as abcToPdf drives it.  A        *)
(* document records the instructions issued to it, in order, and its       *)
(* vertical cursor doc.y as the list of advances made from the top margin  *)
(* (their size in points depends on the engine's font metrics).            *)
(* Lengths are in hundredths of a point.                                   *)
(***************************************************************************)
PageWidth == 59528          \* size: 'A4' is 595.28 x 841.89 pt
PageHeight == 84189
Margin == 5000              \* margin: 50
ReservedHeader == 10000     \* the 100 of line 214
FallbackWidth == 600        \* metadata?.width || 600
FallbackHeight == 400       \* metadata?.height || 400
TitleFontSize == 20
ComposerFontSize == 12
FooterFontSize == 8
FooterDrop == 2000          \* the + 20 of line 263

Undefined == [null |-> TRUE, value |-> ""]
Provided(s) == [null |-> FALSE, value |-> s]

Instr(op, text, nums, cursor) == [op |-> op, text |-> text, nums |-> nums, cursor |-> cursor]

\* a document that starts from what the first invocation has drawn
NewDocumentShared(options) ==
    [info |-> [Title |-> OrString(options.title, "Music Sheet"),
               Author |-> OrString(options.composer, "Unknown")],
     instrs |-> inv[1].instrs,
     size |-> Num(12),
     y |-> <<>>]

\* lines 180-189
NewDocument(options) ==
    [info |-> [Title |-> OrString(options.title, "Music Sheet"),
               Author |-> OrString(options.composer, "Unknown")],
     instrs |-> <<>>,
     size |-> Num(12),
     y |-> <<>>]

Issue(doc, instr) == [doc EXCEPT !.instrs = Append(@, instr)]

fontSize(doc, size) ==
    [Issue(doc, Instr("fontSize", <<>>, <<size>>, <<>>)) EXCEPT !.size = size]

\* doc.text(str, {align: 'center'}): flows at the cursor and moves it below the text
flowText(doc, str) ==
    [Issue(doc, Instr("text", str, <<>>, doc.y))
        EXCEPT !.y = Append(@, [kind |-> "text", halves |-> 0, size |-> doc.size.n])]

\* doc.moveDown(lines), lines given in half lines
moveDown(doc, halves) ==
    [doc EXCEPT !.y = Append(@, [kind |-> "moveDown", halves |-> halves, size |-> doc.size.n])]

\* a title block that falls back on the metadata default when no title is given
TitleBlockDefaulted(doc, options) ==
    moveDown(flowText(fontSize(doc, Num(TitleFontSize)),
                      <<OrString(options.title, "Music Sheet")>>), 1)

\* lines 201-204
TitleBlock(doc, options) ==
    IF TruthyAttribute(options.title)
    THEN moveDown(flowText(fontSize(doc, Num(TitleFontSize)), <<options.title.value>>), 1)
    ELSE doc

\* lines 207-210
ComposerBlock(doc, options) ==
    IF TruthyAttribute(options.composer)
    THEN moveDown(flowText(fontSize(doc, Num(ComposerFontSize)),
                           <<"Composer: ", options.composer.value>>), 2)
    ELSE doc

(***************************************************************************)
(* Scale and offset, lines 212-231.                                        *)
(***************************************************************************)
\* elements.find(e => e.type === 'metadata')
FindMetadata(elements) ==
    LET found == SelectSeq(elements, LAMBDA e : e.type = "metadata")
    IN  IF found = <<>> THEN [type |-> "undefined", width |-> NaN, height |-> NaN]
        ELSE Head(found)

\* x || fallback on a number
OrNumber(x, fallback) == IF TruthyNumber(x) THEN x ELSE Num(fallback)

pageWidth == PageWidth - Margin - Margin
pageHeight == PageHeight - Margin - Margin - ReservedHeader

svgWidth(metadata) == OrNumber(metadata.width, FallbackWidth)
svgHeight(metadata) == OrNumber(metadata.height, FallbackHeight)

\* pageWidth / svgWidth with pageWidth in hundredths of a point
scaleX(metadata) == Frac(pageWidth, 100 * svgWidth(metadata).n)
scaleY(metadata) == Frac(pageHeight, 100 * svgHeight(metadata).n)

\* Math.min(scaleX, scaleY, 1)
Scale(metadata) == FracMin(FracMin(scaleX(metadata), scaleY(metadata)), One)

\* doc.page.margins.left + (pageWidth - svgWidth * scale) / 2, in hundredths of a point
OffsetX(metadata) ==
    FracPlus(Num(Margin),
             FracHalf(FracMinus(Num(pageWidth),
                                FracTimes(Scale(metadata), 100 * svgWidth(metadata).n))))

\* a vertical offset fixed at the top margin, whatever has been written above
OpenTransformAtMargin(doc, metadata) ==
    LET saved == Issue(doc, Instr("save", <<>>, <<>>, <<>>))
        moved == Issue(saved, Instr("translate", <<>>, <<OffsetX(metadata)>>, <<>>))
    IN  Issue(moved, Instr("scale", <<>>, <<Scale(metadata)>>, <<>>))

\* lines 224-231
OpenTransform(doc, metadata) ==
    LET saved == Issue(doc, Instr("save", <<>>, <<>>, <<>>))
        moved == Issue(saved, Instr("translate", <<>>, <<OffsetX(metadata)>>, doc.y))
    IN  Issue(moved, Instr("scale", <<>>, <<Scale(metadata)>>, <<>>))

(***************************************************************************)
(* Drawing the elements, lines 234-253.  The page engine may throw on a    *)
(* primitive (path data it cannot parse, a font it cannot load): `throwAt` *)
(* is the position, among the primitives drawn, of the one it throws on,   *)
(* or 0.                                                                   *)
(***************************************************************************)
MsgEngine == "page engine error"

\* a path that is stroked whatever its stroke attribute says
DrawPathStroked(doc, element) ==
    LET shaped == Issue(doc, Instr("path", <<element.d>>, <<>>, <<>>))
        filled == IF element.fill # "" /\ element.fill # "none"
                  THEN Issue(shaped, Instr("fill", <<element.fill>>, <<>>, <<>>))
                  ELSE shaped
    IN  Issue(Issue(filled, Instr("lineWidth", <<>>, <<element.strokeWidth>>, <<>>)),
              Instr("stroke", <<element.stroke>>, <<>>, <<>>))

\* lines 237-246
DrawPath(doc, element) ==
    LET shaped == Issue(doc, Instr("path", <<element.d>>, <<>>, <<>>))
        filled == IF element.fill # "" /\ element.fill # "none"
                  THEN Issue(shaped, Instr("fill", <<element.fill>>, <<>>, <<>>))
                  ELSE shaped
    IN  IF element.stroke # "" /\ element.stroke # "none"
        THEN Issue(Issue(filled, Instr("lineWidth", <<>>, <<element.strokeWidth>>, <<>>)),
                   Instr("stroke", <<element.stroke>>, <<>>, <<>>))
        ELSE filled

\* lines 249-251
DrawText(doc, element) ==
    Issue(Issue(fontSize(doc, element.fontSize),
                Instr("font", <<element.fontFamily>>, <<>>, <<>>)),
          Instr("text", <<element.content>>, <<element.x, element.y>>, <<>>))

\* what the engine has been sent of a primitive when it throws on it
DrawThrowing(doc, element) ==
    IF element.type = "text" THEN fontSize(doc, element.fontSize) ELSE doc

IsPrimitive(element) == element.type \in {"path", "text"}

\* a loop that leaves out a path that has neither fill nor stroke
DrawElementPaintedOnly(doc, element) ==
    CASE element.type = "path" /\ (element.fill # "none" \/ element.stroke # "none") ->
            DrawPath(doc, element)
      [] element.type = "text" -> DrawText(doc, element)
      [] OTHER -> doc

\* one iteration of elements.forEach
DrawElement(doc, element) ==
    CASE element.type = "path" -> DrawPath(doc, element)
      [] element.type = "text" -> DrawText(doc, element)
      [] OTHER -> doc

\* the forEach loop: the document after it, and whether the engine threw
RECURSIVE DrawElements(_, _, _, _)
DrawElements(doc, elements, drawn, throwAt) ==
    IF elements = <<>> THEN [doc |-> doc, threw |-> FALSE]
    ELSE LET element == Head(elements)
             nth == IF IsPrimitive(element) THEN drawn + 1 ELSE drawn
         IN  IF IsPrimitive(element) /\ nth = throwAt
             THEN [doc |-> DrawThrowing(doc, element), threw |-> TRUE]
             ELSE DrawElements(DrawElement(doc, element), Tail(elements), nth, throwAt)

\* a footer written before the graphics state is restored
CloseDocumentFooterScoped(doc, now) ==
    LET footed == Issue(fontSize(doc, Num(FooterFontSize)),
                        Instr("text", <<"Generated on ", now>>,
                              <<Num(Margin), Num(PageHeight - Margin + FooterDrop)>>, <<>>))
    IN  Issue(Issue(footed, Instr("restore", <<>>, <<>>, <<>>)),
              Instr("end", <<>>, <<>>, <<>>))

\* lines 256-268: restore, footer, end
CloseDocument(doc, now) ==
    LET restored == Issue(doc, Instr("restore", <<>>, <<>>, <<>>))
        footed == Issue(fontSize(restored, Num(FooterFontSize)),
                        Instr("text", <<"Generated on ", now>>,
                              <<Num(Margin), Num(PageHeight - Margin + FooterDrop)>>, <<>>))
    IN  Issue(footed, Instr("end", <<>>, <<>>, <<>>))

\* lines 200-268 on a new document: the document, and whether the engine threw
Compose(elements, options, throwAt, now) ==
    LET headed == ComposerBlock(TitleBlock(NewDocument(options), options), options)
        opened == OpenTransform(headed, FindMetadata(elements))
        drawn == DrawElements(opened, elements, 0, throwAt)
    IN  IF drawn.threw THEN drawn
        ELSE [doc |-> CloseDocument(drawn.doc, now), threw |-> FALSE]

(***************************************************************************)
(* abcToPdf, index.js 162-278, up to its await.  `calls` is the trace of   *)
(* what the invocation has done, in order.                                 *)
(***************************************************************************)
NoOptions == [title |-> Undefined, composer |-> Undefined]

IdleInvocation ==
    [status |-> "idle", abcNotation |-> NullValue, options |-> NoOptions,
     calls |-> <<>>, elements |-> <<>>, info |-> [Title |-> "", Author |-> ""],
     instrs |-> <<>>, chunks |-> <<>>, pdfPromise |-> "none", value |-> <<>>,
     returned |-> FALSE, result |-> <<>>, error |-> <<>>, document |-> 0]

\* an invocation that leaves global.document as it finds it
InstallContextStale(self) == globalDocument

\* global.document = dom.window.document; global.window = dom.window (lines 167-169)
InstallContext(self) == self

\* a finally block that leaves the globals in place
ReleaseContextSkipped(current) == current

\* delete global.document; delete global.window (lines 275-276)
ReleaseContext(current) == 0

\* a validator error that goes through the catch clause
RefusedWrapped(invocation, message) ==
    [invocation EXCEPT !.status = "rejected", !.error = <<PrefixPdf, message>>]

\* line 164: the validator's Error leaves abcToPdf as it is, the call stands outside the try
Refused(invocation, message) ==
    [invocation EXCEPT !.status = "rejected", !.error = <<message>>]

\* a catch clause that runs the failed stage once more before giving up
CaughtRetrying(invocation, message) ==
    [invocation EXCEPT !.status = "rejected",
                       !.error = <<PrefixPdf>> \o message,
                       !.calls = @ \o <<@[Len(@)], "release">>]

\* a catch clause that throws the error on as it caught it
CaughtBare(invocation, message) ==
    [invocation EXCEPT !.status = "rejected",
                       !.error = message,
                       !.calls = Append(@, "release")]

\* catch and finally, lines 271-277: the Error abcToPdf throws for a failure in the try block
Caught(invocation, message) ==
    [invocation EXCEPT !.status = "rejected",
                       !.error = <<PrefixPdf>> \o message,
                       !.calls = Append(@, "release")]

\* lines 164-270, run to the first of: the validator throws, the try block throws,
\* the function suspends at `await pdfPromise`
SyncPart(self, abcNotation, options, abcjs, throwAt, now) ==
    LET called == [IdleInvocation EXCEPT !.abcNotation = abcNotation, !.options = options,
                                         !.calls = <<"validateAbcNotation">>]
        valid == validateAbcNotation(abcNotation)
        \* `document` is the global.document that abcToSvg reads at line 58
        installed == [called EXCEPT !.calls = @ \o <<"install", "abcToSvg">>,
                                    !.document = InstallContext(self)]
        svg == abcToSvg(installed.document, abcjs)
        extract == extractSvgElements(svg.svg)
        parsedOk == [installed EXCEPT !.calls = Append(@, "extractSvgElements")]
        composed == Compose(extract.elements, options, throwAt, now)
        drawnTo == [parsedOk EXCEPT !.calls = Append(@, "PDFDocument"),
                                    !.elements = extract.elements,
                                    !.info = composed.doc.info,
                                    !.instrs = composed.doc.instrs,
                                    !.pdfPromise = "pending"]
    IN  IF ~valid.ok
        THEN Refused(called, valid.message)
        ELSE IF ~svg.ok THEN Caught(installed, svg.message)
        ELSE IF ~extract.ok THEN Caught(parsedOk, <<extract.message>>)
        ELSE IF composed.threw THEN Caught(drawnTo, <<MsgEngine>>)
        ELSE [drawnTo EXCEPT !.status = "awaiting", !.calls = Append(@, "await")]

Installed(invocation) == \E i \in DOMAIN invocation.calls : invocation.calls[i] = "install"
Released(invocation) == \E i \in DOMAIN invocation.calls : invocation.calls[i] = "release"
Rendered(invocation) == \E i \in DOMAIN invocation.calls : invocation.calls[i] = "abcToSvg"

\* global.document after the synchronous part of an invocation
AmbientAfter(self, invocation, before) ==
    IF ~Installed(invocation) THEN before
    ELSE IF Released(invocation) THEN ReleaseContext(InstallContext(self))
    ELSE InstallContext(self)

\* the primitives the engine could throw on, for what abcjs produced
Primitives(abcjs) ==
    IF abcjs.kind = "rendered" /\ abcjs.container.root
    THEN Len(extractSvgElements(abcjs.container).elements) - 1
    ELSE 0

\* abcjs is a function of the notation: a notation rendered before renders the same
AbcjsFor(abcNotation, outcomes) ==
    IF abcNotation \in DOMAIN rendered THEN {rendered[abcNotation]} ELSE outcomes

Remember(abcNotation, abcjs) ==
    [n \in DOMAIN rendered \cup {abcNotation} |->
        IF n = abcNotation THEN abcjs ELSE rendered[n]]

\* new Date().toLocaleString() of line 261: the first invocation composes at
\* 10:00:00, a later one within the same second or in the next
Timestamps(self) == IF self = 1 THEN {"10:00:00"} ELSE {"10:00:00", "10:00:01"}

\* abcToPdf(abcNotation, options) is called and runs to its first suspension;
\* invocations are numbered in call order
Enter(self, notations, optionSets, outcomes) ==
    /\ inv[self].status = "idle"
    /\ IF self = 1 THEN TRUE ELSE inv[self - 1].status # "idle"
    /\ \E abcNotation \in notations, options \in optionSets, now \in Timestamps(self) :
         \E abcjs \in AbcjsFor(abcNotation, outcomes) :
           \E throwAt \in 0..Primitives(abcjs) :
             LET after == SyncPart(self, abcNotation, options, abcjs, throwAt, now)
             IN  /\ inv' = [inv EXCEPT ![self] = after]
                 /\ globalDocument' = AmbientAfter(self, after, globalDocument)
                 /\ globalWindow' = AmbientAfter(self, after, globalWindow)
                 /\ rendered' = IF Rendered(after) THEN Remember(abcNotation, abcjs)
                                ELSE rendered
    /\ UNCHANGED <<directCalls, httpState>>

\* a caller other than the tool handler calls abcToPdf
Invoke(self, notations, optionSets, outcomes) ==
    Enter(self, notations, optionSets, outcomes) /\ UNCHANGED tool

(***************************************************************************)
(* The page engine's stream after doc.end(): 'data' events carry the       *)
(* document's chunks 1..DocChunks in order, 'end' follows the last one,    *)
(* 'error' may come instead.  Lines 193-198.                               *)
(***************************************************************************)
\* doc.on('data', chunk => chunks.push(chunk))
DataEvent(self) ==
    /\ inv[self].status = "awaiting"
    /\ inv[self].pdfPromise = "pending"
    /\ Len(inv[self].chunks) < DocChunks
    /\ inv' = [inv EXCEPT ![self].chunks = Append(@, Len(@) + 1)]
    /\ UNCHANGED <<globalDocument, globalWindow, rendered, directCalls, tool, httpState>>

\* a promise resolved with the chunks received so far, without waiting for 'end'
ResolveEarly(self) ==
    /\ inv[self].status = "awaiting"
    /\ inv[self].pdfPromise = "pending"
    /\ inv' = [inv EXCEPT ![self].pdfPromise = "resolved", ![self].value = inv[self].chunks]
    /\ UNCHANGED <<globalDocument, globalWindow, rendered, directCalls, tool, httpState>>

\* doc.on('end', () => resolve(Buffer.concat(chunks)))
EndEvent(self) ==
    /\ inv[self].status = "awaiting"
    /\ inv[self].pdfPromise = "pending"
    /\ Len(inv[self].chunks) = DocChunks
    /\ inv' = [inv EXCEPT ![self].pdfPromise = "resolved", ![self].value = inv[self].chunks]
    /\ UNCHANGED <<globalDocument, globalWindow, rendered, directCalls, tool, httpState>>

\* doc.on('error', reject)
ErrorEvent(self) ==
    /\ inv[self].status = "awaiting"
    /\ inv[self].pdfPromise = "pending"
    /\ inv' = [inv EXCEPT ![self].pdfPromise = "rejected"]
    /\ UNCHANGED <<globalDocument, globalWindow, rendered, directCalls, tool, httpState>>

\* the continuation of `return await pdfPromise`, lines 270-277
Resume(self) ==
    /\ inv[self].status = "awaiting"
    /\ inv[self].pdfPromise \in {"resolved", "rejected"}
    /\ inv' = [inv EXCEPT ![self] =
                 IF inv[self].pdfPromise = "resolved"
                 THEN [inv[self] EXCEPT !.status = "resolved", !.returned = TRUE,
                                        !.result = inv[self].value,
                                        !.calls = Append(@, "release")]
                 ELSE Caught(inv[self], <<MsgEngine>>)]
    /\ globalDocument' = ReleaseContext(globalDocument)
    /\ globalWindow' = ReleaseContext(globalWindow)
    /\ UNCHANGED <<rendered, directCalls, tool, httpState>>

(***************************************************************************)
(* A direct call of the exported extractSvgElements.                       *)
(***************************************************************************)
NoDocument == [root |-> FALSE, a |-> <<>>, kids |-> <<>>]

ParseCall(doc) ==
    /\ parsed' = [called |-> TRUE, svg |-> doc, out |-> extractSvgElements(doc)]
    /\ UNCHANGED <<inv, globalDocument, globalWindow, rendered, validated, checked, tool, httpState>>

(***************************************************************************)
(* A direct call of the exported validateAbcNotation.                      *)
(***************************************************************************)
ValidateCall(abcNotation) ==
    /\ validated' = [called |-> TRUE, arg |-> abcNotation,
                     out |-> validateAbcNotation(abcNotation)]
    /\ UNCHANGED <<inv, globalDocument, globalWindow, rendered, parsed, checked, tool, httpState>>

(***************************************************************************)
(* A direct call of AbcToPdfSchema.parse.                                  *)
(***************************************************************************)
SchemaCall(args) ==
    /\ checked' = [called |-> TRUE, arg |-> args, out |-> AbcToPdfSchema(args)]
    /\ UNCHANGED <<inv, globalDocument, globalWindow, rendered, parsed, validated, tool, httpState>>

(***************************************************************************)
(* The stdio server's handler of tools/call, index.js 351-400.  It is an   *)
(* async function: CallTool is its run up to `await abcToPdf(...)`, whose  *)
(* invocation is number 1, and ToolResume its continuation once that       *)
(* invocation has settled.                                                 *)
(***************************************************************************)
ToolName == "abc_to_pdf"
PrefixError == "Error: "
PrefixUri == "data:application/pdf;base64,"
PrefixUnknownTool == "Unknown tool: "
TextGenerated == "Generated PDF from ABC notation"
TextSize == "Successfully generated PDF from ABC notation. Size: "

\* pdfToBase64, lines 285-287
pdfToBase64(pdfBuffer) == [encoding |-> "base64", bytes |-> pdfBuffer]

Item(type, text, uri) == [type |-> type, text |-> text, uri |-> uri]
\* `data:application/pdf;base64,${base64Pdf}`
DataUri(base64Pdf) == [scheme |-> PrefixUri, data |-> base64Pdf]
NoUri == [scheme |-> "", data |-> [encoding |-> "none", bytes |-> << >>]]

\* error.message of a ZodError: the issues, serialized
ZodMessage(issues) == [i \in DOMAIN issues |-> issues[i].message]

\* an error result that does not say it is one
ErrorResultUnflagged(message) ==
    [content |-> <<Item("text", <<PrefixError>> \o message, NoUri)>>, isError |-> "absent"]

\* lines 388-398
ErrorResult(message) ==
    [content |-> <<Item("text", <<PrefixError>> \o message, NoUri)>>, isError |-> "true"]

\* lines 371-387; the size in KB is that of the engine's bytes
SuccessResult(pdfBuffer, title) ==
    [content |->
        <<Item("resource",
               <<TextGenerated>> \o (IF title.type = "string" /\ title.value # ""
                                     THEN <<" - ", title.value>> ELSE << >>),
               DataUri(pdfToBase64(pdfBuffer))),
          Item("text", <<TextSize, "KB">>, NoUri)>>,
     isError |-> "absent"]

NoResult == [content |-> << >>, isError |-> "absent"]

IdleTool == [status |-> "idle", name |-> "", args |-> NoArguments, result |-> NoResult,
             thrown |-> << >>]

\* validatedArgs.title as an option of abcToPdf
ToOption(text) == IF text.type = "undefined" THEN Undefined ELSE Provided(text.value)

\* lines 351-366: a request arrives and the handler runs to its await
CallTool(names, argumentSets, outcomes) ==
    /\ tool.status = "idle"
    /\ \E name \in names, args \in argumentSets :
         LET called == [IdleTool EXCEPT !.name = name, !.args = args]
             valid == AbcToPdfSchema(args)
         IN  IF name # ToolName
             THEN /\ tool' = [called EXCEPT !.status = "threw",
                                            !.thrown = <<PrefixUnknownTool, name>>]
                  /\ UNCHANGED <<inv, globalDocument, globalWindow, rendered, directCalls, httpState>>
             ELSE IF ~valid.ok
             THEN /\ tool' = [called EXCEPT !.status = "returned",
                                            !.result = ErrorResult(ZodMessage(valid.issues))]
                  /\ UNCHANGED <<inv, globalDocument, globalWindow, rendered, directCalls, httpState>>
             ELSE /\ tool' = [called EXCEPT !.status = "awaiting"]
                  /\ Enter(1, {valid.data.abc_notation},
                           {[title |-> ToOption(valid.data.title),
                             composer |-> ToOption(valid.data.composer)]},
                           outcomes)

\* lines 366-398: abcToPdf's promise has settled
ToolResume ==
    /\ tool.status = "awaiting"
    /\ inv[1].status \in {"resolved", "rejected"}
    /\ tool' = [tool EXCEPT !.status = "returned",
                            !.result = IF inv[1].status = "resolved"
                                       THEN SuccessResult(inv[1].result, tool.args.title)
                                       ELSE ErrorResult(inv[1].error)]
    /\ UNCHANGED <<inv, globalDocument, globalWindow, rendered, directCalls, httpState>>

(***************************************************************************)
(* The HTTP server's /mcp endpoint, part_001 446-575.  `transports` is the *)
(* object that maps session ids to transports; randomUUID yields an id     *)
(* never issued before.  What a transport of the MCP SDK answers is the    *)
(* SDK's: 200, or 400 for an initialize message on a session already       *)
(* initialized; its DELETE closes the transport, whose onclose handler     *)
(* removes the session.                                                    *)
(***************************************************************************)
MaxSessions == 2        \* session ids the server issues

\* values of the mcp-session-id header
HeaderAbsent == <<"absent", 0>>
Uuid(i) == <<"uuid", i>>
StaleUuid == Uuid(0)
InheritedKey == <<"constructor", 0>>

\* transports[sessionId] on `const transports = {}`: a property of Object.prototype is
\* found under its name
Lookup(table, sessionId) ==
    IF sessionId \in table THEN "transport"
    ELSE IF sessionId = InheritedKey THEN "inherited"
    ELSE "undefined"

\* sessionId && transports[sessionId]
HasTransport(table, sessionId) ==
    sessionId # HeaderAbsent /\ Lookup(table, sessionId) # "undefined"

Answer(status, table, issued) == [status |-> status, table |-> table, issued |-> issued]

\* POST /mcp, lines 451-523
PostMcp(table, issued, sessionId, body) ==
    IF body = "malformed" THEN Answer(500, table, issued)
    ELSE IF HasTransport(table, sessionId)
    THEN IF Lookup(table, sessionId) = "inherited" THEN Answer(500, table, issued)
         ELSE Answer(IF body = "initialize" THEN 400 ELSE 200, table, issued)
    ELSE IF sessionId = HeaderAbsent /\ body = "initialize"
    THEN Answer(200, table \cup {Uuid(issued + 1)}, issued + 1)
    ELSE Answer(400, table, issued)

\* GET /mcp and DELETE /mcp, lines 528-553
StreamOrDeleteMcp(method, table, issued, sessionId) ==
    IF ~HasTransport(table, sessionId) THEN Answer(400, table, issued)
    ELSE IF Lookup(table, sessionId) = "inherited" THEN Answer(500, table, issued)
    ELSE IF method = "DELETE" THEN Answer(200, table \ {sessionId}, issued)
    ELSE Answer(200, table, issued)

NoRequest ==
    [method |-> "", sessionId |-> HeaderAbsent, body |-> "", status |-> 0, before |-> {}]

\* a request to /mcp is handled
McpRequest(method, sessionId, body) ==
    /\ (method = "POST" /\ sessionId = HeaderAbsent /\ body = "initialize")
          => transports.issued < MaxSessions
    /\ LET answer == CASE method = "POST" ->
                             PostMcp(transports.table, transports.issued, sessionId, body)
                        [] method \in {"GET", "DELETE"} ->
                             StreamOrDeleteMcp(method, transports.table, transports.issued,
                                               sessionId)
                        [] OTHER -> Answer(405, transports.table, transports.issued)
       IN  /\ transports' = [table |-> answer.table, issued |-> answer.issued]
           /\ http' = [method |-> method, sessionId |-> sessionId, body |-> body,
                       status |-> answer.status, before |-> transports.table]
    /\ UNCHANGED <<inv, globalDocument, globalWindow, rendered, directCalls, tool>>

(***************************************************************************)
(* Inputs.                                                                 *)
(***************************************************************************)
ValidScale == StringValue(<<"X", ":", "1", "\n", "K", ":", "C", "\n", "C", "D", "E", "F">>)
ValidTune == StringValue(<<"K", ":", "G", "\n", "G", "2", " ", "A", "|">>)
EmptyNotation == StringValue(<<>>)
BlankNotation == StringValue(<<" ", "\n">>)
ScriptNotation ==
    StringValue(<<"K", ":", "C", "\n", "<", "S", "c", "r", "i", "p", "t", ">">>)
HandlerNotation == StringValue(<<"C", " ", "O", "n", "l", "o", "a", "d", "=", "x">>)
SchemeNotation ==
    StringValue(<<"j", "a", "v", "a", "s", "c", "r", "i", "p", "t", ":", "C">>)

Notations ==
    {ValidScale, ValidTune, EmptyNotation, BlankNotation, NullValue, NumberValue(5),
     ScriptNotation, HandlerNotation, SchemeNotation}

OptionSets ==
    [title : {Undefined, Provided(""), Provided("Ode")},
     composer : {Undefined, Provided(""), Provided("Bach")}]

\* values of the svg element's width and height attributes; "none" stands for absent
WidthValues ==
    {<<"none">>, <<>>, <<"0">>, <<"-", "1", "0", "0">>, <<"a", "b", "c">>,
     <<"4", "0", "0">>, <<"6", "0", "0">>, <<"1", "2", "0", "0">>,
     <<"1", "0", "0", "p", "x">>}
HeightValues ==
    {<<"none">>, <<>>, <<"0">>, <<"-", "5", "0">>, <<"a", "u", "t", "o">>,
     <<"4", "0", "0">>, <<"8", "0", "0">>, <<"2", "0", "0", "0">>}

SvgAttributes(w, h) ==
    LET names == (IF w = <<"none">> THEN {} ELSE {"width"})
                 \cup (IF h = <<"none">> THEN {} ELSE {"height"})
    IN  [name \in names |-> IF name = "width" THEN w ELSE h]

Leaf(tag, a, text) == Element(tag, a, text, <<>>)

PathA == Leaf("path", [d |-> "M0 0L9 9"], "")
PathB == Leaf("path", [d |-> "M1 1H5", fill |-> "#ff0000", stroke |-> "none"], "")
PathGuide == Leaf("path", [d |-> "M2 2V7", fill |-> "none", stroke |-> "none"], "")
PathEmpty == Leaf("path", [d |-> "", stroke |-> "#0000ff"], "")
PathBare == Leaf("path", [stroke |-> "#0000ff"], "")
TextA == Leaf("text", [x |-> <<"1", "0">>, y |-> <<"2", "0">>], "Allegro")
TextB == Leaf("text", << >>, "Fine")
TextEmpty == Leaf("text", [x |-> <<"5">>], "")
Rect == Leaf("rect", << >>, "")

\* paths and texts with a stroke width or a font size that is negative, zero or no number
PathThin == Leaf("path", [d |-> "M3 3H4"] @@ ("stroke-width" :> <<"-", "2">>), "")
PathOdd == Leaf("path", [d |-> "M4 4H5"] @@ ("stroke-width" :> <<"w", "i", "d", "e">>), "")
PathHair == Leaf("path", [d |-> "M5 5H6", stroke |-> ""] @@ ("stroke-width" :> <<"0">>), "")
TextZero == Leaf("text", ("font-size" :> <<"0">>) @@ ("font-family" :> "Times"), "Largo")
TextSmall == Leaf("text", ("font-size" :> <<"-", "3">>), "Presto")
TextOdd == Leaf("text", ("font-size" :> <<"b", "i", "g">>) @@ ("font-family" :> ""), "Vivace")

Bodies ==
    { << >>,
      <<PathA, TextA>>,
      <<TextA, PathA>>,
      <<Element("g", << >>, "Allegro", <<TextA, PathB>>), PathGuide, TextB>>,
      <<PathEmpty, Rect, PathBare, TextEmpty, PathA>>,
      <<PathHair, TextZero>>,
      <<PathThin, PathOdd, TextSmall, TextOdd>> }

SvgDocs ==
    {[root |-> TRUE, a |-> SvgAttributes(w, h), kids |-> body] :
        w \in WidthValues, h \in HeightValues, body \in Bodies}

\* the documents abcjs may produce: every canvas size on one body, every body on one canvas
RenderedDocs ==
    {doc \in SvgDocs :
        \/ doc.kids = <<TextA, PathA>>
        \/ doc.a = SvgAttributes(<<"6", "0", "0">>, <<"4", "0", "0">>)}

\* everything abcjs may do for a notation
AllOutcomes ==
    {AbcjsThrows, AbcjsEmpty, AbcjsRendered(NoDocument)}
        \cup {AbcjsRendered(doc) : doc \in RenderedDocs}

(***************************************************************************)
(* Overlapping invocations on a few inputs.                                *)
(***************************************************************************)
FewNotations == {ValidScale, ValidTune, ScriptNotation}
FewOptions == {[title |-> Provided("Ode"), composer |-> Undefined]}
FewOutcomes ==
    {AbcjsThrows,
     AbcjsRendered([root |-> TRUE, a |-> SvgAttributes(<<"6", "0", "0">>, <<"4", "0", "0">>),
                    kids |-> <<PathA>>])}

(***************************************************************************)
(* Arguments of validateAbcNotation: every text of BeforeTexts, followed   *)
(* by one of MiddleTexts, followed by one of AfterTexts; blank strings;    *)
(* values that are not strings.                                            *)
(***************************************************************************)
\* what precedes
BeforeTexts ==
    { <<>>,
      <<"K", ":", "C", "\n">>,
      <<" ">>,
      <<"t">> }

\* the dangerous patterns in several cases, and texts that come close to them
MiddleTexts ==
    { <<"<", "s", "c", "r", "i", "p", "t">>,
      <<"<", "S", "C", "R", "I", "P", "T">>,
      <<"<", "S", "c", "R", "i", "P", "t">>,
      <<"<", "i", "f", "r", "a", "m", "e">>,
      <<"<", "I", "F", "r", "a", "m", "e">>,
      <<"<", "o", "b", "j", "e", "c", "t">>,
      <<"<", "O", "B", "J", "E", "C", "T">>,
      <<"<", "e", "m", "b", "e", "d">>,
      <<"<", "E", "m", "b", "e", "d">>,
      <<"j", "a", "v", "a", "s", "c", "r", "i", "p", "t", ":">>,
      <<"J", "a", "v", "a", "S", "c", "r", "i", "p", "t", ":">>,
      <<"J", "A", "V", "A", "S", "C", "R", "I", "P", "T", ":">>,
      <<"o", "n", "l", "o", "a", "d", "=">>,
      <<"O", "N", "C", "L", "I", "C", "K", "=">>,
      <<"O", "n", "E", "r", "r", "o", "r", "=">>,
      <<"o", "n", "_", "1", "=">>,
      <<"o", "n", "x", "=">>,
      <<"s", "c", "r", "i", "p", "t">>,
      <<"<", "s", "c", "r", "i", "p">>,
      <<"<", " ", "s", "c", "r", "i", "p", "t">>,
      <<"i", "f", "r", "a", "m", "e">>,
      <<"<", "o", "b", "j", "e", "k", "t">>,
      <<"e", "m", "b", "e", "d", ">">>,
      <<"j", "a", "v", "a", "s", "c", "r", "i", "p", "t">>,
      <<"j", "a", "v", "a", " ", "s", "c", "r", "i", "p", "t", ":">>,
      <<"o", "n", "=">>,
      <<"o", "n", " ", "l", "o", "a", "d", "=">>,
      <<"o", "n", "l", "o", "a", "d">>,
      <<"o", "n", "-", "x", "=">>,
      <<"C", " ", "D", " ", "E", " ", "F", " ", "|">>,
      <<"o">>,
      <<"n">> }

\* what follows
AfterTexts ==
    { <<>>,
      <<">">>,
      <<"=">>,
      <<" ", "x">> }

BlankTexts == { << >>, <<" ">>, <<" ", "\n">>, <<"\t", " ", "\n">> }

NonStrings ==
    {UndefinedValue, NullValue, NumberValue(0), NumberValue(5),
     ArrayValue(<<"<", "s", "c", "r", "i", "p", "t", ">">>), ArrayValue(<<"C">>)}

ValidatorArguments ==
    {StringValue(before \o middle \o after) :
        before \in BeforeTexts, middle \in MiddleTexts, after \in AfterTexts}
      \cup {StringValue(blank) : blank \in BlankTexts}
      \cup NonStrings

\* arguments of AbcToPdfSchema.parse
SchemaNotations ==
    {UndefinedValue, NullValue, NumberValue(5), EmptyNotation, BlankNotation, ValidScale,
     ScriptNotation}
SchemaTitles ==
    {NoText, TextValue("null", ""), TextValue("number", ""), TextValue("string", ""),
     TextValue("string", "Ode")}
SchemaComposers ==
    {NoText, TextValue("null", ""), TextValue("string", ""), TextValue("string", "Bach")}

SchemaArguments ==
    {NoArguments}
      \cup {Arguments(abcNotation, title, composer) :
              abcNotation \in SchemaNotations, title \in SchemaTitles,
              composer \in SchemaComposers}

\* tools/call requests
ToolNames == {ToolName, "abc_to_svg"}
ToolNotations ==
    {UndefinedValue, NumberValue(5), EmptyNotation, BlankNotation, ValidScale, ScriptNotation}
ToolArguments ==
    {NoArguments}
      \cup {Arguments(abcNotation, title, composer) :
              abcNotation \in ToolNotations,
              title \in {NoText, TextValue("null", ""), TextValue("string", ""),
                         TextValue("string", "Ode")},
              composer \in {NoText, TextValue("string", "Bach")}}

Init ==
    /\ inv = [p \in Invocations |-> IdleInvocation]
    /\ globalDocument = 0
    /\ globalWindow = 0
    /\ rendered = << >>
    /\ parsed = [called |-> FALSE, svg |-> NoDocument, out |-> extractSvgElements(NoDocument)]
    /\ validated = [called |-> FALSE, arg |-> NullValue, out |-> Accepted]
    /\ checked = [called |-> FALSE, arg |-> NoArguments, out |-> AbcToPdfSchema(NoArguments)]
    /\ tool = IdleTool
    /\ transports = [table |-> {}, issued |-> 0]
    /\ http = NoRequest

Next ==
    \E self \in Invocations :
        \/ Invoke(self, FewNotations, FewOptions, FewOutcomes)
        \/ DataEvent(self)
        \/ EndEvent(self)
        \/ ErrorEvent(self)
        \/ Resume(self)

Spec == Init /\ [][Next]_vars

(***************************************************************************)
(* One invocation at a time, on every input.                               *)
(***************************************************************************)
NextOne ==
    \/ Invoke(1, Notations, OptionSets, AllOutcomes)
    \/ DataEvent(1)
    \/ EndEvent(1)
    \/ ErrorEvent(1)
    \/ Resume(1)

SpecOne == Init /\ [][NextOne]_vars

(***************************************************************************)
(* Direct calls of the parser, on every document.                          *)
(***************************************************************************)
NextParser == \E doc \in SvgDocs \cup {NoDocument} : ParseCall(doc)

SpecParser == Init /\ [][NextParser]_vars

(***************************************************************************)
(* Direct calls of the validator, on every argument.                       *)
(***************************************************************************)
NextValidator == \E abcNotation \in ValidatorArguments : ValidateCall(abcNotation)

SpecValidator == Init /\ [][NextValidator]_vars

(***************************************************************************)
(* Direct calls of the schema, on every argument object.                   *)
(***************************************************************************)
NextSchema == \E args \in SchemaArguments : SchemaCall(args)

SpecSchema == Init /\ [][NextSchema]_vars

(***************************************************************************)
(* One tools/call request, on every name and argument object.              *)
(***************************************************************************)
NextTool ==
    \/ CallTool(ToolNames, ToolArguments, FewOutcomes)
    \/ DataEvent(1)
    \/ EndEvent(1)
    \/ ErrorEvent(1)
    \/ Resume(1)
    \/ ToolResume

SpecTool == Init /\ [][NextTool]_vars

(***************************************************************************)
(* Requests to /mcp, with every header and body.                           *)
(***************************************************************************)
Methods == {"POST", "GET", "DELETE", "PUT"}
Headers == {HeaderAbsent, StaleUuid, InheritedKey} \cup {Uuid(i) : i \in 1..MaxSessions}
MessageBodies == {"initialize", "tools/call", "malformed"}

NextHttp ==
    \E method \in Methods, sessionId \in Headers, body \in MessageBodies :
        McpRequest(method, sessionId, body)

SpecHttp == Init /\ [][NextHttp]_vars

(***************************************************************************)
(* Properties.                                                             *)
(***************************************************************************)
Settled(p) == inv[p].status \in {"resolved", "rejected"}
Holding(p) == Installed(inv[p]) /\ ~Released(inv[p])
Ops(instrs) == [i \in DOMAIN instrs |-> instrs[i].op]
IndexOf(seq, x) == CHOOSE i \in DOMAIN seq : seq[i] = x
Count(seq, x) == Cardinality({i \in DOMAIN seq : seq[i] = x})

\* C1: overlapping invocations are serialized on the ambient context: at most one
\* invocation at a time is between installing global.document/global.window and
\* releasing them.
C1_ContextSerialized == Cardinality({p \in Invocations : Holding(p)}) <= 1

\* C2: an invocation that installed the ambient context has released it when its
\* promise settles, on success and on failure: the step that settles it leaves
\* global.document and global.window deleted, and when no invocation is pending
\* none of them is installed.
C2_ReleasedOnEveryExit ==
    /\ [](\A p \in Invocations : Settled(p) /\ Installed(inv[p]) => Released(inv[p]))
    /\ [][\A p \in Invocations :
            (~Settled(p) /\ Settled(p)' /\ Installed(inv[p])')
                => (globalDocument' = 0 /\ globalWindow' = 0)]_vars
    /\ []((\A p \in Invocations : inv[p].status # "awaiting")
            => (globalDocument = 0 /\ globalWindow = 0))

\* C2 witness: one invocation failed after installing the context, another one
\* resolved, and the context is gone.
C2_Witness ==
    /\ \E p \in Invocations : inv[p].status = "rejected" /\ Installed(inv[p])
    /\ \E p \in Invocations : inv[p].status = "resolved"
    /\ globalDocument = 0 /\ globalWindow = 0

\* the notations the validator must turn away, with the message of each
C3_Refused ==
    {<<EmptyNotation, MsgNonEmptyString>>, <<ScriptNotation, MsgUnsafe>>,
     <<HandlerNotation, MsgUnsafe>>, <<SchemeNotation, MsgUnsafe>>}

\* C3: the validator runs first; for an empty or unsafe notation the invocation fails
\* with the validator's error and neither the renderer, nor the parser, nor the page
\* engine is invoked.
C3_ValidatorBeforeRenderer ==
    \A p \in Invocations : inv[p].status # "idle" =>
        /\ inv[p].calls[1] = "validateAbcNotation"
        /\ Count(inv[p].calls, "validateAbcNotation") = 1
        /\ \A r \in C3_Refused : inv[p].abcNotation = r[1] =>
             /\ inv[p].status = "rejected"
             /\ inv[p].error = <<r[2]>>
             /\ inv[p].calls = <<"validateAbcNotation">>
             /\ inv[p].instrs = << >>
             /\ inv[p].abcNotation \notin DOMAIN rendered

\* C3 witness: an invocation on a notation holding a script tag was turned away by the
\* validator.
C3_Witness ==
    /\ inv[1].status = "rejected"
    /\ inv[1].abcNotation = ScriptNotation
    /\ inv[1].error = <<MsgUnsafe>>

\* the buffer of a finished document: all its chunks, in order
C4_Complete == [i \in 1..DocChunks |-> i]

\* C4: abcToPdf returns a buffer only after the last instruction (doc.end) was issued
\* and the engine signalled 'end', and then the buffer is the whole document; an
\* invocation that failed returned nothing.
C4_NoPartialDocument ==
    \A p \in Invocations :
        /\ inv[p].returned =>
             /\ inv[p].status = "resolved"
             /\ inv[p].pdfPromise = "resolved"
             /\ inv[p].instrs # << >> /\ inv[p].instrs[Len(inv[p].instrs)].op = "end"
             /\ Count(Ops(inv[p].instrs), "restore") = 1
             /\ inv[p].result = C4_Complete
             /\ inv[p].error = << >>
        /\ inv[p].status = "resolved" => inv[p].returned
        /\ inv[p].status = "rejected" =>
             /\ ~inv[p].returned
             /\ inv[p].result = << >>
             /\ inv[p].error # << >>

\* C4 witness: one invocation returned a whole document, and another failed in the page
\* engine after part of the drawing.
C4_Witness ==
    /\ \E p \in Invocations : inv[p].returned /\ inv[p].result = C4_Complete
    /\ \E p \in Invocations :
         inv[p].status = "rejected" /\ inv[p].instrs # << >> /\ inv[p].chunks = << >>

\* the elements of a document that carry something to draw, in document order
C5_Drawable(doc) ==
    SelectSeq(DocumentOrder(doc.kids),
              LAMBDA e : \/ e.tag = "path" /\ "d" \in DOMAIN e.a /\ e.a["d"] # ""
                         \/ e.tag = "text" /\ e.text # "")

\* C5: the primitives extractSvgElements returns are in the order of the document's
\* depth-first traversal; a text that precedes a path comes before that path.
C5_DocumentOrder ==
    (parsed.called /\ parsed.out.ok) =>
        LET source == C5_Drawable(parsed.svg)
            prims == Tail(parsed.out.elements)
        IN  /\ Len(prims) = Len(source)
            /\ \A i \in 1..Len(prims) :
                 /\ prims[i].type = source[i].tag
                 /\ prims[i].type = "path" => prims[i].d = source[i].a["d"]
                 /\ prims[i].type = "text" => prims[i].content = source[i].text

Composed(p) ==
    inv[p].instrs # << >> /\ inv[p].instrs[Len(inv[p].instrs)].op = "end"

\* the instructions between save and restore
Scoped(instrs) ==
    SubSeq(instrs, IndexOf(Ops(instrs), "save") + 1, IndexOf(Ops(instrs), "restore") - 1)

CountType(elements, type) == Cardinality({i \in DOMAIN elements : elements[i].type = type})

\* C6: the path and text draw instructions abcToPdf emits are as many as the path
\* primitives (each with drawing-command data) and the text primitives (each with
\* content) the parser returned; the metadata record draws nothing.
C6_DrawsMatchPrimitives ==
    \A p \in Invocations : Composed(p) =>
        LET ops == Ops(Scoped(inv[p].instrs))
            elements == inv[p].elements
        IN  /\ Count(ops, "path") = CountType(elements, "path")
            /\ Count(ops, "text") = CountType(elements, "text")
            /\ CountType(elements, "metadata") = 1
            /\ Count(ops, "path") + Count(ops, "text") = Len(elements) - 1
            /\ \A i \in DOMAIN elements :
                 /\ elements[i].type = "path" => elements[i].d # ""
                 /\ elements[i].type = "text" => elements[i].content # ""

\* C6 witness: a composed document whose source held two paths, one of them without
\* fill or stroke, and two texts.
C6_Witness ==
    /\ Composed(1)
    /\ CountType(inv[1].elements, "path") = 2
    /\ CountType(inv[1].elements, "text") = 2
    /\ \E i \in DOMAIN inv[1].elements :
         /\ inv[1].elements[i].type = "path"
         /\ inv[1].elements[i].fill = "none" /\ inv[1].elements[i].stroke = "none"

HasScale(p) == \E i \in DOMAIN inv[p].instrs : inv[p].instrs[i].op = "scale"
ScaleOf(p) == inv[p].instrs[IndexOf(Ops(inv[p].instrs), "scale")].nums[1]

\* C7: whatever width and height the document declares, the scale factor is in (0, 1].
C7_ScaleInUnitInterval ==
    \A p \in Invocations : HasScale(p) =>
        /\ ScaleOf(p).n > 0
        /\ ScaleOf(p).n <= ScaleOf(p).d

\* scale = min(drawable width / w, drawable height / h, 1) on the A4 page: the
\* drawable area is 495.28 x 641.89 pt
C8_Formula(w, h) ==
    FracMin(FracMin(Frac(59528 - 2 * 5000, 100 * w),
                    Frac(84189 - 2 * 5000 - 10000, 100 * h)), One)

\* C8: the scale is min(drawable width / canvas width, drawable height / canvas
\* height, 1); it is 1 exactly when the canvas is no larger than the drawable area;
\* a 600 x 400 canvas gives 0.825 (to three places).
C8_ScaleToFit ==
    \A p \in Invocations : HasScale(p) =>
        LET w == svgWidth(inv[p].elements[1]).n
            h == svgHeight(inv[p].elements[1]).n
            s == ScaleOf(p)
        IN  /\ s = C8_Formula(w, h)
            /\ (s = One) <=> (100 * w <= 49528 /\ 100 * h <= 64189)
            /\ (w = 600 /\ h = 400) => (825 * s.d <= 1000 * s.n /\ 1000 * s.n < 826 * s.d)

\* C9: a canvas of width 0 is scaled as one of width 600, a canvas of height 0 as one
\* of height 800 (the other dimension being 0 or positive).
C9_ZeroFallsBackToDefaults ==
    \A p \in Invocations : HasScale(p) =>
        LET m == inv[p].elements[1]
            w == IF m.width.n = 0 THEN 600 ELSE m.width.n
            h == IF m.height.n = 0 THEN 800 ELSE m.height.n
        IN  (/\ ~m.width.nan /\ ~m.height.nan
             /\ m.width.n >= 0 /\ m.height.n >= 0
             /\ (m.width.n = 0 \/ m.height.n = 0))
                => ScaleOf(p) = C8_Formula(w, h)

\* what a width or height attribute declares: a number, or nothing numeric ("default")
C10_Declared ==
    [v \in WidthValues \cup HeightValues |->
        CASE v = <<"0">> -> Num(0)
          [] v = <<"-", "1", "0", "0">> -> Num(0 - 100)
          [] v = <<"-", "5", "0">> -> Num(0 - 50)
          [] v = <<"4", "0", "0">> -> Num(400)
          [] v = <<"6", "0", "0">> -> Num(600)
          [] v = <<"8", "0", "0">> -> Num(800)
          [] v = <<"1", "2", "0", "0">> -> Num(1200)
          [] v = <<"2", "0", "0", "0">> -> Num(2000)
          [] v = <<"1", "0", "0", "p", "x">> -> Num(100)
          [] OTHER -> [nan |-> FALSE, n |-> 0, d |-> 0]]

C10_Expected(a, name, default) ==
    IF name \notin DOMAIN a \/ C10_Declared[a[name]].d = 0
    THEN Num(default)
    ELSE C10_Declared[a[name]]

\* C10: the metadata record has width 600 when the root's width is absent or not a
\* number and height 800 when its height is absent or not a number, and the declared
\* number otherwise.
C10_MetadataDefaults ==
    (parsed.called /\ parsed.out.ok) =>
        /\ parsed.out.elements[1].type = "metadata"
        /\ parsed.out.elements[1].width = C10_Expected(parsed.svg.a, "width", 600)
        /\ parsed.out.elements[1].height = C10_Expected(parsed.svg.a, "height", 800)

\* a caller's option that is a non-empty string
C11_Given(option) == ~option.null /\ option.value # ""

\* the instructions of the blocks written above the music, for the caller's options
C11_Header(options) ==
    (IF C11_Given(options.title) THEN <<"fontSize", "text">> ELSE << >>)
        \o (IF C11_Given(options.composer) THEN <<"fontSize", "text">> ELSE << >>)

C11_DrawOps == {"path", "fill", "lineWidth", "stroke", "fontSize", "font", "text"}

\* C11: a composed document's instructions come in the fixed order: title block (if
\* any), composer block (if any), save, translate, scale, the primitive draws,
\* restore, footer text, end; every primitive draw lies between the one save and the
\* one restore, and the footer comes after the restore.
C11_FixedInstructionOrder ==
    \A p \in Invocations : Composed(p) =>
        LET instrs == inv[p].instrs
            ops == Ops(instrs)
            n == Len(ops)
            head == C11_Header(inv[p].options)
            h == Len(head)
        IN  /\ n >= h + 7
            /\ SubSeq(ops, 1, h) = head
            /\ SubSeq(ops, h + 1, h + 3) = <<"save", "translate", "scale">>
            /\ \A i \in (h + 4)..(n - 4) : ops[i] \in C11_DrawOps
            /\ SubSeq(ops, n - 3, n) = <<"restore", "fontSize", "text", "end">>
            /\ instrs[n - 1].text[1] = "Generated on "
            /\ Count(ops, "path") + Count(ops, "font")
                 = Cardinality({i \in (h + 4)..(n - 4) : ops[i] \in {"path", "font"}})
            /\ Len(inv[p].elements) - 1 = Count(ops, "path") + Count(ops, "font")

\* C11 witness: a resolved invocation with a title and a composer whose document drew
\* paths and texts.
C11_Witness ==
    /\ inv[1].status = "resolved"
    /\ Composed(1)
    /\ C11_Given(inv[1].options.title)
    /\ C11_Given(inv[1].options.composer)
    /\ Count(Ops(inv[1].instrs), "path") >= 2
    /\ Count(Ops(inv[1].instrs), "font") >= 2

\* the instructions issued before the graphics state is saved
C12_Header(p) == SubSeq(inv[p].instrs, 1, IndexOf(Ops(inv[p].instrs), "save") - 1)

\* a visible block of the given text and font size stands above the music
C12_Block(p, text, size) ==
    \E i \in 2..Len(C12_Header(p)) :
        /\ C12_Header(p)[i].op = "text"
        /\ C12_Header(p)[i].text = text
        /\ C12_Header(p)[i - 1].op = "fontSize"
        /\ C12_Header(p)[i - 1].nums = <<Num(size)>>

C12_TextBlocks(p) == Count(Ops(C12_Header(p)), "text")

C13_Advance(size, halves) ==
    <<[kind |-> "text", halves |-> 0, size |-> size],
      [kind |-> "moveDown", halves |-> halves, size |-> size]>>

\* the cursor below the blocks the options make abcToPdf write, from the top margin
C13_CursorBelow(options) ==
    (IF C11_Given(options.title) THEN C13_Advance(20, 1) ELSE << >>)
        \o (IF C11_Given(options.composer) THEN C13_Advance(12, 2) ELSE << >>)

C13_Translate(p) == inv[p].instrs[IndexOf(Ops(inv[p].instrs), "translate")]

\* C13: the vertical offset of the translation is the cursor below the blocks that
\* were emitted: the top margin with no block, advanced by the title's text height
\* and half a line at the title size, then by the composer's text height and one line
\* at the composer size; every block above the music was written at a cursor
\* strictly before it.
C13_OffsetBelowBlocks ==
    \A p \in Invocations : Composed(p) =>
        LET offsetY == C13_Translate(p).cursor
            header == C12_Header(p)
        IN  /\ offsetY = C13_CursorBelow(inv[p].options)
            /\ (header = << >>) => offsetY = << >>
            /\ \A i \in DOMAIN header : header[i].op = "text" =>
                 /\ Len(header[i].cursor) < Len(offsetY)
                 /\ SubSeq(offsetY, 1, Len(header[i].cursor)) = header[i].cursor

\* C13 witness: a document composed with the composer block alone has been translated
\* to the cursor below that block.
C13_Witness ==
    /\ Composed(1)
    /\ inv[1].options = [title |-> Undefined, composer |-> Provided("Bach")]
    /\ C13_Translate(1).cursor = C13_Advance(12, 2)

\* the operations a path primitive asks of the page engine, with their string argument
C14_PathOps(element) ==
    <<<<"path", element.d>>>>
        \o (IF element.fill = "none" THEN << >> ELSE <<<<"fill", element.fill>>>>)
        \o (IF element.stroke = "none" THEN << >>
            ELSE <<<<"lineWidth", "">>, <<"stroke", element.stroke>>>>)

\* the instructions from position i up to the next path or text draw
RECURSIVE C14_RunFrom(_, _)
C14_RunFrom(instrs, i) ==
    IF i > Len(instrs) \/ instrs[i].op \in {"path", "fontSize"} THEN << >>
    ELSE <<instrs[i]>> \o C14_RunFrom(instrs, i + 1)

\* the instructions issued for the path drawn at position i
C14_PathRun(instrs, i) == <<instrs[i]>> \o C14_RunFrom(instrs, i + 1)

C14_Shown(instr) == <<instr.op, IF instr.text = << >> THEN "" ELSE instr.text[1]>>

C14_Paths(elements) == SelectSeq(elements, LAMBDA e : e.type = "path")

\* the positions of the path instructions, in order
C14_PathPositions(instrs) ==
    LET at == {i \in DOMAIN instrs : instrs[i].op = "path"}
    IN  [k \in 1..Cardinality(at) |->
            CHOOSE i \in at : Cardinality({j \in at : j < i}) = k - 1]

\* C14: every path primitive gets exactly one path instruction carrying its raw
\* drawing commands, followed by a fill exactly when its fill is not "none", followed
\* by a line width (the primitive's stroke width) and a stroke exactly when its stroke
\* is not "none"; a path with neither still gets its path instruction, and no paint.
C14_PathPaint ==
    \A p \in Invocations : Composed(p) =>
        LET scoped == Scoped(inv[p].instrs)
            paths == C14_Paths(inv[p].elements)
            at == C14_PathPositions(scoped)
        IN  /\ Len(at) = Len(paths)
            /\ \A k \in DOMAIN paths :
                 LET run == C14_PathRun(scoped, at[k])
                 IN  /\ [i \in DOMAIN run |-> C14_Shown(run[i])] = C14_PathOps(paths[k])
                     /\ \A i \in DOMAIN run :
                          run[i].op = "lineWidth" => run[i].nums = <<paths[k].strokeWidth>>

\* C14 witness: a composed document that drew a path with neither fill nor stroke and
\* a filled path without stroke.
C14_Witness ==
    /\ Composed(1)
    /\ \E i, j \in DOMAIN inv[1].elements :
         /\ inv[1].elements[i].type = "path"
         /\ inv[1].elements[i].fill = "none" /\ inv[1].elements[i].stroke = "none"
         /\ inv[1].elements[j].type = "path"
         /\ inv[1].elements[j].fill # "none" /\ inv[1].elements[j].stroke = "none"

C15_Fold(s) == [i \in DOMAIN s |-> ToLower(s[i])]

\* s contains word, whatever the case of its letters
C15_Contains(s, word) ==
    \E i \in 1..(Len(s) - Len(word) + 1) :
        SubSeq(C15_Fold(s), i, i + Len(word) - 1) = word

\* s contains on<word>=, whatever the case of "on"
C15_ContainsHandler(s) ==
    \E i \in 1..Len(s) : \E n \in 1..Len(s) :
        /\ i + n + 2 <= Len(s)
        /\ SubSeq(C15_Fold(s), i, i + 1) = <<"o", "n">>
        /\ \A k \in 1..n : IsWordChar(s[i + 1 + k])
        /\ s[i + n + 2] = "="

C15_Blank(s) == \A i \in DOMAIN s : s[i] \in {" ", "\n", "\t"}

C15_Unsafe(s) ==
    \/ C15_Contains(s, <<"<", "s", "c", "r", "i", "p", "t">>)
    \/ C15_Contains(s, <<"<", "i", "f", "r", "a", "m", "e">>)
    \/ C15_Contains(s, <<"<", "o", "b", "j", "e", "c", "t">>)
    \/ C15_Contains(s, <<"<", "e", "m", "b", "e", "d">>)
    \/ C15_Contains(s, <<"j", "a", "v", "a", "s", "c", "r", "i", "p", "t", ":">>)
    \/ C15_ContainsHandler(s)

\* C15: for a string that is not blank, validateAbcNotation throws 'ABC notation
\* contains potentially unsafe content' when the string contains, in any case,
\* <script, <iframe, <object, <embed, javascript: or on<word>=, and returns true when
\* it contains none of them.
C15_UnsafeIffPattern ==
    (validated.called /\ validated.arg.type = "string" /\ ~C15_Blank(validated.arg.s))
        => validated.out = (IF C15_Unsafe(validated.arg.s)
                            THEN [ok |-> FALSE, message |-> MsgUnsafe]
                            ELSE [ok |-> TRUE, message |-> ""])

\* C15 witness: the validator has thrown on a handler attribute in upper case that
\* stands in the middle of a notation.
C15_Witness ==
    /\ validated.called
    /\ validated.arg = StringValue(<<"K", ":", "C", "\n", "O", "N", "C", "L", "I", "C", "K", "=",
                                     " ", "x">>)
    /\ validated.out = [ok |-> FALSE, message |-> MsgUnsafe]

\* C16: validateAbcNotation throws 'ABC notation must be a non-empty string' for the
\* empty string, for undefined, null and every other value that is not a string,
\* whatever the value holds: this is decided before the unsafe patterns are looked
\* for.  A string that is not empty but blank is rejected as empty too, with 'ABC
\* notation cannot be empty'.
C16_EmptinessFirst ==
    validated.called =>
        /\ (validated.arg.type # "string" \/ validated.arg.s = << >>)
              => validated.out = [ok |-> FALSE, message |-> MsgNonEmptyString]
        /\ (validated.arg.type = "string" /\ validated.arg.s # << >>
               /\ C15_Blank(validated.arg.s))
              => validated.out = [ok |-> FALSE, message |-> MsgCannotBeEmpty]
        /\ validated.out.message = MsgUnsafe
              => (validated.arg.type = "string" /\ ~C15_Blank(validated.arg.s))

\* C16 witness: the validator has thrown the non-empty-string error on an array whose
\* text holds a script tag.
C16_Witness ==
    /\ validated.called
    /\ validated.arg.type = "array"
    /\ C15_Unsafe(validated.arg.s)
    /\ validated.out = [ok |-> FALSE, message |-> MsgNonEmptyString]

C17_OptionalString(value) == value.type \in {"undefined", "string"}

\* C17: AbcToPdfSchema accepts exactly the argument objects whose abc_notation is a
\* string of at least one character and whose title and composer are each absent or a
\* string; the parsed object carries the three fields as given, absent ones
\* undefined; an empty abc_notation is rejected with an issue saying 'ABC notation
\* cannot be empty'; a missing abc_notation is rejected.
C17_SchemaAccepts ==
    checked.called =>
        LET args == checked.arg
            out == checked.out
        IN  /\ out.ok <=> /\ args.object
                          /\ args.abc_notation.type = "string"
                          /\ Len(args.abc_notation.s) >= 1
                          /\ C17_OptionalString(args.title)
                          /\ C17_OptionalString(args.composer)
            /\ out.ok => /\ out.data.abc_notation = args.abc_notation
                         /\ out.data.title = args.title
                         /\ out.data.composer = args.composer
            /\ (args.object /\ args.abc_notation = StringValue(<< >>)) =>
                  /\ ~out.ok
                  /\ \E i \in DOMAIN out.issues :
                       out.issues[i].message = "ABC notation cannot be empty"
            /\ args.abc_notation.type = "undefined" => ~out.ok

\* C17 witness: the schema has accepted a notation with a title and no composer, and
\* returned them.
C17_Witness ==
    /\ checked.called
    /\ checked.out.ok
    /\ checked.out.data.title = TextValue("string", "Ode")
    /\ checked.out.data.composer.type = "undefined"
    /\ checked.out.data.abc_notation = ValidScale

\* the handler's result is the error result for a message
C18_IsError(result) ==
    /\ result.isError = "true"
    /\ Len(result.content) = 1
    /\ result.content[1].type = "text"
    /\ Len(result.content[1].text) >= 2
    /\ result.content[1].text[1] = "Error: "
    /\ \A i \in DOMAIN result.content : result.content[i].type # "resource"

\* the handler's result is a document
C18_IsSuccess(result) ==
    /\ result.isError = "absent"
    /\ Len(result.content) = 2
    /\ result.content[1].type = "resource"
    /\ result.content[1].uri.scheme = "data:application/pdf;base64,"
    /\ result.content[1].uri.data.encoding = "base64"
    /\ result.content[1].uri.data.bytes = [i \in 1..DocChunks |-> i]
    /\ result.content[2].type = "text"

\* the arguments pass the schema
C18_WellFormed(args) ==
    /\ args.object
    /\ args.abc_notation.type = "string" /\ args.abc_notation.s # << >>
    /\ C17_OptionalString(args.title) /\ C17_OptionalString(args.composer)

\* C18: the handler throws exactly for a request naming another tool than abc_to_pdf;
\* for abc_to_pdf every failure (of the schema, of the notation validator, of the
\* renderer, of the page engine) is returned as isError true with the single text item
\* 'Error: <message>' and no resource, and every success as a resource item with a
\* base64 data URI of the document followed by a text item, without isError.
C18_HandlerReturnsErrors ==
    /\ tool.status = "threw" <=> (tool.status # "idle" /\ tool.name # "abc_to_pdf")
    /\ tool.status = "threw" => inv[1].status = "idle"
    /\ tool.status = "returned" =>
         IF C18_WellFormed(tool.args) /\ inv[1].status = "resolved"
         THEN C18_IsSuccess(tool.result)
         ELSE /\ C18_IsError(tool.result)
              /\ C18_WellFormed(tool.args) =>
                   /\ inv[1].status = "rejected"
                   /\ Tail(tool.result.content[1].text) = inv[1].error
    /\ tool.status = "awaiting" => C18_WellFormed(tool.args)

\* C18 witness: a request has been answered with the error of the notation validator.
C18_Witness ==
    /\ tool.status = "returned"
    /\ tool.name = "abc_to_pdf"
    /\ tool.args.abc_notation = ScriptNotation
    /\ tool.result.isError = "true"
    /\ tool.result.content[1].text = <<"Error: ", MsgUnsafe>>

\* C19: when the validator rejects the notation, the error abcToPdf rejects with is
\* the validator's own: its message alone, without the prefix the catch clause adds.
C19_ValidatorErrorVerbatim ==
    \A p \in Invocations :
        (inv[p].status # "idle" /\ ~validateAbcNotation(inv[p].abcNotation).ok) =>
            /\ inv[p].status = "rejected"
            /\ inv[p].error = <<validateAbcNotation(inv[p].abcNotation).message>>
            /\ inv[p].error[1] \in {MsgNonEmptyString, MsgCannotBeEmpty, MsgUnsafe}
            /\ \A i \in DOMAIN inv[p].error : inv[p].error[i] # "Failed to generate PDF: "

\* C19 witness: abcToPdf has rejected a blank notation with the validator's message.
C19_Witness ==
    /\ inv[1].status = "rejected"
    /\ inv[1].abcNotation = BlankNotation
    /\ inv[1].error = <<"ABC notation cannot be empty">>

\* the last stage an invocation entered
C20_Stage(p) ==
    LET calls == inv[p].calls
    IN  IF Count(calls, "PDFDocument") = 1 THEN "composition"
        ELSE IF Count(calls, "extractSvgElements") = 1 THEN "parsing"
        ELSE IF Count(calls, "abcToSvg") = 1 THEN "rendering"
        ELSE "validation"

\* C20 as stated: every failure, of whatever stage, reaches the caller as one
\* conversion error made of the wrapper, the stage it comes from and the original
\* message.
C20_StageAndMessage ==
    \A p \in Invocations : inv[p].status = "rejected" =>
        /\ Len(inv[p].error) = 3
        /\ inv[p].error[1] = "Failed to generate PDF: "
        /\ inv[p].error[2] # inv[p].error[1]

\* C20 amended: a failure of the validator reaches the caller as the validator's
\* error, unwrapped; a failure of rendering, parsing, composition or finalization
\* reaches it as one Error whose message is 'Failed to generate PDF: ' followed by
\* the original message, and only for rendering does that message name the stage
\* ('Failed to convert ABC to SVG: ').
C20_PrefixedOriginalMessage ==
    \A p \in Invocations : inv[p].status = "rejected" =>
        LET error == inv[p].error
        IN  CASE C20_Stage(p) = "validation" ->
                   /\ Len(error) = 1
                   /\ error[1] \in {MsgNonEmptyString, MsgCannotBeEmpty, MsgUnsafe}
              [] C20_Stage(p) = "rendering" ->
                   /\ Len(error) = 3
                   /\ error[1] = "Failed to generate PDF: "
                   /\ error[2] = "Failed to convert ABC to SVG: "
                   /\ error[3] \in {MsgAbcjs, MsgNoDocument, MsgRenderFailed, MsgNoSvg}
              [] C20_Stage(p) = "parsing" ->
                   error = <<"Failed to generate PDF: ", "Invalid SVG content">>
              [] OTHER ->
                   error = <<"Failed to generate PDF: ", MsgEngine>>

\* C20 witness: one invocation has failed in finalization, after its await, with the
\* prefixed message of the page engine.
C20_Witness ==
    /\ inv[1].status = "rejected"
    /\ Count(inv[1].calls, "await") = 1
    /\ inv[1].error = <<"Failed to generate PDF: ", MsgEngine>>

\* the stages of abcToPdf, in order
C21_Stages == <<"validateAbcNotation", "abcToSvg", "extractSvgElements", "PDFDocument">>

\* the stages an invocation has called, in the order of the calls
C21_StagesCalled(p) == SelectSeq(inv[p].calls, LAMBDA c : c \in Range(C21_Stages))

\* the stages an invocation has called are called once each, in order, and a failed
\* invocation stopped at the stage that failed
C21_AtMostOnce ==
    \A p \in Invocations : inv[p].status # "idle" =>
        LET called == C21_StagesCalled(p)
        IN  /\ \A stage \in Range(C21_Stages) : Count(inv[p].calls, stage) <= 1
            /\ called = SubSeq(C21_Stages, 1, Len(called))
            /\ Len(called) < 4 =>
                 /\ inv[p].status = "rejected"
                 /\ inv[p].error # << >>
                 /\ inv[p].instrs = << >>
                 /\ inv[p].pdfPromise = "none"
            /\ Len(called) < 3 => inv[p].elements = << >>
            /\ inv[p].status = "rejected" => inv[p].error # << >>
            /\ Count(inv[p].calls, "install") <= 1
            /\ Count(inv[p].calls, "release") <= 1

\* C21: no stage is retried: in one invocation the validator, the renderer, the
\* parser and the page composition are called at most once each and in this order;
\* the first stage that fails ends the invocation with an error to the caller, no
\* later stage runs, and nothing happens in a failed invocation afterwards.
C21_NoRetry ==
    /\ []C21_AtMostOnce
    /\ [][\A p \in Invocations : inv[p].status = "rejected" => inv'[p] = inv[p]]_vars

\* C21 witness: an invocation whose renderer failed has ended with an error, without
\* the parser or the page composition having run.
C21_Witness ==
    /\ inv[1].status = "rejected"
    /\ C21_StagesCalled(1) = <<"validateAbcNotation", "abcToSvg">>
    /\ inv[1].instrs = << >>

\* the instructions of a composed document with the footer's timestamp struck out
C22_Timeless(instrs) ==
    [i \in DOMAIN instrs |->
        IF i = Len(instrs) - 1 THEN [instrs[i] EXCEPT !.text = <<instrs[i].text[1]>>]
        ELSE instrs[i]]

C23_KnownSession == http.sessionId \in http.before

\* the last request was an initialize POST without session id
C23_Initialize ==
    http.method = "POST" /\ http.sessionId = <<"absent", 0>> /\ http.body = "initialize"

\* C23: a session is created only by an initialize POST that carries no session id;
\* a POST without known session id that is not such an initialize request, and a GET
\* or DELETE without known session id, is answered with 400 and leaves the session
\* table as it was.
C23_SessionRequired ==
    /\ (transports.table \ http.before # {}) => C23_Initialize
    /\ (/\ http.method \in {"POST", "GET", "DELETE"}
        /\ ~C23_KnownSession
        /\ ~C23_Initialize) =>
            /\ http.status = 400
            /\ transports.table = http.before

\* the width of the scaled content of invocation p, in hundredths of a point
C24_ContentWidth(p) == FracTimes(ScaleOf(p), 100 * svgWidth(inv[p].elements[1]).n)

\* the free space to the left of the scaled content inside the drawable area
C24_FreeLeft(p) == FracMinus(C13_Translate(p).nums[1], Num(5000))

\* the free space to its right: the drawable width less the content and the left space
C24_FreeRight(p) == FracMinus(FracMinus(Num(49528), C24_ContentWidth(p)), C24_FreeLeft(p))

\* C24: the horizontal offset is the left margin plus half of what the scaled content
\* leaves of the drawable width: the free space to the left of the content equals the
\* free space to its right, and it is never negative.
C24_Centered ==
    \A p \in Invocations : HasScale(p) =>
        /\ C13_Translate(p).nums[1]
             = FracPlus(Num(5000), FracHalf(FracMinus(Num(49528), C24_ContentWidth(p))))
        /\ C24_FreeLeft(p) = C24_FreeRight(p)
        /\ C24_FreeLeft(p).n >= 0

\* C25: extractSvgElements throws, and returns neither primitives nor a metadata
\* record, exactly when its input has no svg element; the Error says 'Invalid SVG
\* content'.
C25_FailsWithoutRoot ==
    parsed.called =>
        /\ ~parsed.out.ok <=> ~parsed.svg.root
        /\ ~parsed.out.ok =>
             /\ parsed.out.elements = << >>
             /\ parsed.out.message = "Invalid SVG content"
        /\ parsed.out.ok => Len(parsed.out.elements) >= 1

\* C25 witness: the parser has been called on a text without svg element and has
\* thrown.
C25_Witness ==
    /\ parsed.called
    /\ ~parsed.svg.root
    /\ ~parsed.out.ok

\* the path and text elements of a document, in document order
C26_Sources(doc, tag) == SelectSeq(DocumentOrder(doc.kids), LAMBDA e : e.tag = tag)

\* the path elements with drawing commands; the text elements with content
C26_Kept(doc, tag) ==
    SelectSeq(C26_Sources(doc, tag),
              LAMBDA e : IF tag = "path" THEN "d" \in DOMAIN e.a /\ e.a["d"] # ""
                         ELSE e.text # "")

C26_Primitives(elements, type) == SelectSeq(elements, LAMBDA e : e.type = type)

\* C26: the parser returns a path primitive for exactly the path elements that have
\* drawing commands and a text primitive for exactly the text elements that have
\* content, each with the commands or the content of its element; an element it
\* skips does not stop it; the result holds one metadata record, the first element,
\* also for a document that declares no width and no height.
C26_KeptExactly ==
    (parsed.called /\ parsed.svg.root) =>
        LET elements == parsed.out.elements
            paths == C26_Primitives(elements, "path")
            texts == C26_Primitives(elements, "text")
            pathSources == C26_Kept(parsed.svg, "path")
            textSources == C26_Kept(parsed.svg, "text")
        IN  /\ parsed.out.ok
            /\ Len(paths) = Len(pathSources)
            /\ \A i \in DOMAIN paths : paths[i].d = pathSources[i].a["d"]
            /\ Len(texts) = Len(textSources)
            /\ \A i \in DOMAIN texts : texts[i].content = textSources[i].text
            /\ Len(C26_Primitives(elements, "metadata")) = 1
            /\ elements[1].type = "metadata"
            /\ Len(elements) = 1 + Len(paths) + Len(texts)

\* C26 witness: the parser has gone through a document without width and height that
\* holds a path with empty commands, a path without commands and a text without
\* content, and has kept the one path that has commands.
C26_Witness ==
    /\ parsed.called /\ parsed.out.ok
    /\ DOMAIN parsed.svg.a = {}
    /\ Len(C26_Sources(parsed.svg, "path")) = 3
    /\ Len(C26_Sources(parsed.svg, "text")) = 1
    /\ Len(parsed.out.elements) = 2

\* an attribute is absent from an element
C27_Absent(e, name) == name \notin DOMAIN e.a

\* C27: every path primitive has a stroke width that is a number >= 0, and 1 when the
\* attribute is absent, stroke '#000000' and fill 'none' when these are absent; every
\* text primitive has a font size that is a number > 0, and 12 when the attribute is
\* absent, and font family 'Arial' when it is absent; whatever the attributes hold.
C27_BoundsAndDefaults ==
    (parsed.called /\ parsed.out.ok) =>
        LET paths == C26_Primitives(parsed.out.elements, "path")
            texts == C26_Primitives(parsed.out.elements, "text")
            pathSources == C26_Kept(parsed.svg, "path")
            textSources == C26_Kept(parsed.svg, "text")
        IN  /\ \A i \in DOMAIN paths :
                 /\ ~paths[i].strokeWidth.nan /\ paths[i].strokeWidth.n >= 0
                 /\ C27_Absent(pathSources[i], "stroke-width")
                       => paths[i].strokeWidth = Num(1)
                 /\ C27_Absent(pathSources[i], "stroke") => paths[i].stroke = "#000000"
                 /\ C27_Absent(pathSources[i], "fill") => paths[i].fill = "none"
            /\ \A i \in DOMAIN texts :
                 /\ ~texts[i].fontSize.nan /\ texts[i].fontSize.n > 0
                 /\ C27_Absent(textSources[i], "font-size") => texts[i].fontSize = Num(12)
                 /\ C27_Absent(textSources[i], "font-family")
                       => texts[i].fontFamily = "Arial"

\* the renderer of an invocation has run on the document of that invocation
C28_OwnDocument ==
    \A p \in Invocations :
        /\ Rendered(inv[p]) => inv[p].document = p
        /\ Installed(inv[p]) => Rendered(inv[p])

\* C28: under any interleaving of overlapping invocations, the global.document the
\* renderer of an invocation uses is the one that invocation installed: the step that
\* installs the context is the step that renders, it leaves the globals holding that
\* context or deleted by the same invocation, and no other invocation moves in it.
C28_RendersOnOwnContext ==
    /\ []C28_OwnDocument
    /\ [][\A p \in Invocations :
            (~Installed(inv[p]) /\ Installed(inv'[p])) =>
                /\ Rendered(inv'[p])
                /\ globalDocument' = (IF Released(inv'[p]) THEN 0 ELSE p)
                /\ \A q \in Invocations \ {p} : inv'[q] = inv[q]]_vars

\* C28 witness: the second invocation has rendered on its own document while the first,
\* which rendered on its own, is still waiting for its finished document.
C28_Witness ==
    /\ NumInvocations >= 2
    /\ inv[1].status = "awaiting" /\ Rendered(inv[1]) /\ inv[1].document = 1
    /\ inv[2].status = "awaiting" /\ Rendered(inv[2]) /\ inv[2].document = 2

====
